---- MODULE Spec2Model ----
(***************************************************************************)
(* pdfsnap: the page-range parser/validator (parsePageInput,               *)
(* validatePageInput), the merge placement arithmetic and the App's        *)
(* merge/split handlers of src/src/App.jsx, with the file list handlers of *)
(* src/src/components/FileUpload.jsx.                                      *)
(*                                                                         *)
(* A text is a sequence of one-character strings.                          *)
(***************************************************************************)
EXTENDS Integers, Sequences, FiniteSets, TLC

VARIABLES
    activeTab,      \* App state: 'merge' or 'split'
    files,          \* App state: the files list
    isProcessing,   \* App state: the processing flag
    splitRange,     \* App state: the typed selection text
    splitError,     \* App state: the error text shown under the input
    totalPages,     \* App state: the page count loadPdfInfo last set
    ops,            \* the handleMerge / handleSplit calls suspended at an await
    loads,          \* the loadPdfInfo calls suspended at an await, per file
    downloads,      \* how many times link.click() started a download
    alerts,         \* how many times alert() reported a failure
    events,         \* how many user events (clicks, drops, typing) were handled
    input,          \* harness: the text handed to parsePageInput / validatePageInput
    total,          \* harness: the totalPages handed to validatePageInput
    ret,            \* harness: what the last call returned
    srcPage,        \* harness: the intrinsic size [w, h] of a source page
    placed          \* harness: the A4 output page drawn for it

appVars == <<activeTab, files, isProcessing, splitRange, splitError, totalPages,
             ops, loads, downloads, alerts, events>>
appVarsButOps == <<activeTab, files, isProcessing, splitRange, splitError, totalPages,
                   loads, downloads, alerts, events>>
harnessVars == <<input, total, ret, srcPage, placed>>
vars == <<appVars, harnessVars>>

----------------------------------------------------------------------------
(* Bounds of the model *)

MaxLen == 5        \* longest text drawn as an input
MaxDigits == 2     \* longest numeral of a drawn text
MaxDim == 30       \* page sizes drawn: 0..MaxDim steps of DimStep millimetres
DimStep == 13
MaxEvents == 6     \* user events (clicks, drops, removals, typing) in one behaviour
MaxLoads == 2      \* loadPdfInfo calls in flight at once
MaxDrop == 1       \* files accepted by one drop
MaxTotal == 2      \* largest totalPages drawn as an input

\* the characters texts are drawn from: two digits, the two separators, a
\* blank and one character outside the accepted class
DigitChars == {"0", "1"}
Alphabet == DigitChars \cup {",", "-", " ", "a"}

\* the number of digits a text ends with
RECURSIVE trailingDigits(_)
trailingDigits(t) ==
    IF t # <<>> /\ t[Len(t)] \in DigitChars
    THEN 1 + trailingDigits(SubSeq(t, 1, Len(t) - 1))
    ELSE 0

\* the texts of n characters with no numeral longer than MaxDigits
RECURSIVE TextsOfLen(_)
TextsOfLen(n) ==
    IF n = 0 THEN {<<>>}
    ELSE LET shorter == TextsOfLen(n - 1)
         IN {Append(t, c) : t \in shorter, c \in Alphabet \ DigitChars}
            \cup {Append(t, c) : t \in {u \in shorter : trailingDigits(u) < MaxDigits},
                                  c \in DigitChars}

TextsUpTo(len) == UNION {TextsOfLen(n) : n \in 0..len}

----------------------------------------------------------------------------
(* JavaScript string primitives used by the parser *)

Digits == <<"0", "1", "2", "3", "4", "5", "6", "7", "8", "9">>

IsDigit(c) == \E i \in 1..10 : Digits[i] = c

DigitVal(c) == (CHOOSE i \in 1..10 : Digits[i] = c) - 1

\* \s of the regular expressions, and what trim() and parseInt skip
IsSpace(c) == c = " "

\* String.prototype.trim
RECURSIVE trimStart(_)
trimStart(s) ==
    IF s # <<>> /\ IsSpace(Head(s)) THEN trimStart(Tail(s)) ELSE s

RECURSIVE trimEnd(_)
trimEnd(s) ==
    IF s # <<>> /\ IsSpace(s[Len(s)]) THEN trimEnd(SubSeq(s, 1, Len(s) - 1)) ELSE s

trim(s) == trimEnd(trimStart(s))

\* String.prototype.includes for a one-character needle
includes(s, c) == \E i \in 1..Len(s) : s[i] = c

\* String.prototype.split for a one-character separator: "a,,b" gives
\* three pieces, the middle one empty; a text without separator gives itself
RECURSIVE splitFrom(_, _, _, _)
splitFrom(s, sep, from, i) ==
    IF i > Len(s) THEN <<SubSeq(s, from, Len(s))>>
    ELSE IF s[i] = sep
    THEN <<SubSeq(s, from, i - 1)>> \o splitFrom(s, sep, i + 1, i + 1)
    ELSE splitFrom(s, sep, from, i + 1)

split(s, sep) == splitFrom(s, sep, 1, 1)

\* Array.prototype.map(p => p.trim())
mapTrim(parts) == [i \in 1..Len(parts) |-> trim(parts[i])]

\* Array.prototype.filter(p => p): drops the empty strings
RECURSIVE filterNonEmpty(_)
filterNonEmpty(parts) ==
    IF parts = <<>> THEN <<>>
    ELSE IF Head(parts) = <<>> THEN filterNonEmpty(Tail(parts))
    ELSE <<Head(parts)>> \o filterNonEmpty(Tail(parts))

\* A JavaScript number that is NaN is <<>>, the number n is <<n>>
NaN == <<>>
isNaN(v) == v = NaN

\* the value of the longest prefix of decimal digits of s, read left to right
RECURSIVE digitsPrefix(_, _, _)
digitsPrefix(s, acc, seen) ==
    IF s # <<>> /\ IsDigit(Head(s))
    THEN digitsPrefix(Tail(s), 10 * acc + DigitVal(Head(s)), TRUE)
    ELSE IF seen THEN <<acc>> ELSE NaN

\* parseInt(s, 10): skips leading white space, takes an optional sign, then
\* the longest prefix of digits and ignores whatever follows it; NaN when
\* there is no digit at that place
parseInt(s) ==
    LET t == trimStart(s)
    IN IF t # <<>> /\ Head(t) = "-"
       THEN LET v == digitsPrefix(Tail(t), 0, FALSE)
            IN IF isNaN(v) THEN NaN ELSE <<0 - v[1]>>
       ELSE IF t # <<>> /\ Head(t) = "+"
       THEN digitsPrefix(Tail(t), 0, FALSE)
       ELSE digitsPrefix(t, 0, FALSE)

----------------------------------------------------------------------------
(* parsePageInput *)

\* Set.prototype.add on a Set kept in insertion order
setAdd(pages, n) ==
    IF \E i \in 1..Len(pages) : pages[i] = n THEN pages ELSE Append(pages, n)

\* for (let i = start; i <= end; i++) pages.add(i)
RECURSIVE addRange(_, _, _)
addRange(pages, i, end) ==
    IF i <= end THEN addRange(setAdd(pages, i), i + 1, end) ELSE pages

\* Array.prototype.sort((a, b) => a - b)
RECURSIVE insertSorted(_, _)
insertSorted(sorted, n) ==
    IF sorted = <<>> THEN <<n>>
    ELSE IF n - Head(sorted) < 0 THEN <<n>> \o sorted
    ELSE <<Head(sorted)>> \o insertSorted(Tail(sorted), n)

RECURSIVE sortSeq(_)
sortSeq(s) ==
    IF s = <<>> THEN <<>>
    ELSE insertSorted(sortSeq(SubSeq(s, 1, Len(s) - 1)), s[Len(s)])

\* mutant: the Set's insertion order returned without the sort
sortAscending_Unsorted(s) == s

sortAscending(s) == sortSeq(s)

\* what parsePageInput returns: null, or an array of numbers
Null == [null |-> TRUE, pages |-> <<>>]
Pages(list) == [null |-> FALSE, pages |-> list]

\* the for-loop over the parts with its early returns of null, and, once
\* the parts are exhausted, the final return of the sorted Set
RECURSIVE parseParts(_, _)
parseParts(parts, pages) ==
    IF parts = <<>> THEN Pages(sortAscending(pages))
    ELSE LET part == Head(parts)
         IN IF includes(part, "-")
            THEN LET pieces == mapTrim(split(part, "-"))
                     start == parseInt(pieces[1])
                     end == parseInt(pieces[2])
                 IN IF isNaN(start) \/ isNaN(end) THEN Null
                    ELSE IF start[1] > end[1] THEN Null
                    ELSE parseParts(Tail(parts), addRange(pages, start[1], end[1]))
            ELSE LET page == parseInt(part)
                 IN IF isNaN(page) THEN Null
                    ELSE parseParts(Tail(parts), setAdd(pages, page[1]))

\* const parts = input.split(',').map(p => p.trim()).filter(p => p)
partsOf(txt) == filterNonEmpty(mapTrim(split(txt, ",")))

parsePageInput(txt) ==
    IF txt = <<>> \/ trim(txt) = <<>> THEN Pages(<<>>)
    ELSE parseParts(partsOf(txt), <<>>)

----------------------------------------------------------------------------
(* validatePageInput *)

\* Number.prototype.toString of a non-negative integer, as template
\* literals and Array.prototype.join apply it
RECURSIVE toString(_)
toString(n) ==
    IF n < 0 THEN <<"-">> \o toString(0 - n)
    ELSE IF n < 10 THEN <<Digits[n + 1]>>
    ELSE toString(n \div 10) \o <<Digits[(n % 10) + 1]>>

\* Array.prototype.join(', ')
RECURSIVE join(_)
join(list) ==
    IF list = <<>> THEN <<>>
    ELSE IF Len(list) = 1 THEN toString(list[1])
    ELSE toString(Head(list)) \o <<",", " ">> \o join(Tail(list))

\* mutant: the filter without its lower bound, p => p > totalPages
RECURSIVE filterOutOfRange_UpperOnly(_, _)
filterOutOfRange_UpperOnly(pages, nPages) ==
    IF pages = <<>> THEN <<>>
    ELSE IF Head(pages) > nPages
    THEN <<Head(pages)>> \o filterOutOfRange_UpperOnly(Tail(pages), nPages)
    ELSE filterOutOfRange_UpperOnly(Tail(pages), nPages)

\* Array.prototype.filter(p => p < 1 || p > totalPages)
RECURSIVE filterOutOfRange(_, _)
filterOutOfRange(pages, nPages) ==
    IF pages = <<>> THEN <<>>
    ELSE IF Head(pages) < 1 \/ Head(pages) > nPages
    THEN <<Head(pages)>> \o filterOutOfRange(Tail(pages), nPages)
    ELSE filterOutOfRange(Tail(pages), nPages)

\* /^[\d,\-\s]+$/.test(input)
allowedCharsOnly(txt) ==
    /\ txt # <<>>
    /\ \A i \in 1..Len(txt) :
          IsDigit(txt[i]) \/ txt[i] = "," \/ txt[i] = "-" \/ IsSpace(txt[i])

\* /--/.test(input) || /,,/.test(input) || /^[,\-]/.test(input.trim())
\*   || /[,\-]$/.test(input.trim())
malformedPattern(txt) ==
    LET t == trim(txt)
    IN \/ \E i \in 1..(Len(txt) - 1) : txt[i] = "-" /\ txt[i + 1] = "-"
       \/ \E i \in 1..(Len(txt) - 1) : txt[i] = "," /\ txt[i + 1] = ","
       \/ t # <<>> /\ (t[1] = "," \/ t[1] = "-")
       \/ t # <<>> /\ (t[Len(t)] = "," \/ t[Len(t)] = "-")

\* What validatePageInput returns. A message is its fixed wording with the
\* interpolated parts kept beside it: the joined offenders, the total and
\* the plural suffix of "page"; null is NoMessage.
Message(wording) == [text |-> wording, list |-> <<>>, total |-> <<>>, s |-> ""]
NoMessage == Message("null")
MsgEmptyInput == Message("Please enter the pages you want to extract.")
MsgInvalidChars ==
    Message("Invalid format. Use only numbers, commas, and hyphens (e.g., 1, 3-5, 10).")
MsgMalformed == Message("Invalid format. Check your input for extra commas or hyphens.")
MsgInvalidFormat == Message("Invalid format. Use formats like: 1, 3-5, 10")
MsgNoPages == Message("Please enter at least one page number.")
MsgOutOfRange(wording, outOfRange, nPages) ==
    [text |-> wording, list |-> join(outOfRange), total |-> toString(nPages),
     s |-> IF nPages > 1 THEN "s" ELSE ""]
SingularWording == "Page ${list} is out of range. This PDF has ${total} page${s}."
PluralWording == "Pages ${list} are out of range. This PDF has ${total} page${s}."

\* lines 82-91: the range gate on the parsed pages
rangeGate(pages, nPages) ==
    LET outOfRange == filterOutOfRange(pages, nPages)
    IN IF Len(outOfRange) > 0
       THEN IF Len(outOfRange) = 1
            THEN MsgOutOfRange(SingularWording, outOfRange, nPages)
            ELSE MsgOutOfRange(PluralWording, outOfRange, nPages)
       ELSE NoMessage

\* mutant: the punctuation gate tested before the character gate
validatePageInput_PunctFirst(txt, nPages) ==
    IF txt = <<>> \/ trim(txt) = <<>> THEN MsgEmptyInput
    ELSE IF malformedPattern(txt) THEN MsgMalformed
    ELSE IF ~allowedCharsOnly(txt) THEN MsgInvalidChars
    ELSE LET pages == parsePageInput(txt)
         IN IF pages.null THEN MsgInvalidFormat
            ELSE IF Len(pages.pages) = 0 THEN MsgNoPages
            ELSE rangeGate(pages.pages, nPages)

validatePageInput(txt, nPages) ==
    IF txt = <<>> \/ trim(txt) = <<>> THEN MsgEmptyInput
    ELSE IF ~allowedCharsOnly(txt) THEN MsgInvalidChars
    ELSE IF malformedPattern(txt) THEN MsgMalformed
    ELSE LET pages == parsePageInput(txt)
         IN IF pages.null THEN MsgInvalidFormat
            ELSE IF Len(pages.pages) = 0 THEN MsgNoPages
            ELSE rangeGate(pages.pages, nPages)

----------------------------------------------------------------------------
(* JavaScript numbers of the merge arithmetic.                             *)
(*                                                                         *)
(* A number is a binary floating-point value with FloatBits significant    *)
(* bits (53 in JavaScript), every operation rounding its exact result to   *)
(* the nearest such value, ties to even. A finite value is kept as an      *)
(* integer count of units of 2^-FracBits; Infinity and NaN are apart.      *)
(* Lengths are in millimetres: PageSizes.A4, [595.28, 841.89] points, is   *)
(* 210 mm by 297 mm.                                                       *)

FloatBits == 9
FracBits == FloatBits + 3

a4Width == 210
a4Height == 297

RECURSIVE Pow2(_)
Pow2(k) == IF k = 0 THEN 1 ELSE 2 * Pow2(k - 1)

Unit == Pow2(FracBits)

RECURSIVE BitLen(_)
BitLen(n) == IF n = 0 THEN 0 ELSE 1 + BitLen(n \div 2)

Num(v) == [cls |-> "num", v |-> v]
Infinity == [cls |-> "inf", v |-> 0]
NaNValue == [cls |-> "nan", v |-> 0]

\* the spacing of the floating-point values around a magnitude of q units
UlpAt(q) == IF q < Pow2(FloatBits) THEN 1 ELSE Pow2(BitLen(q) - FloatBits)

\* the exact ratio n/d of units, n >= 0 and d > 0, rounded to the nearest
\* floating-point value, ties to the even significand
roundRatio(n, d) ==
    LET step == d * UlpAt(n \div d)
        k == n \div step
        twice == 2 * (n - k * step)
    IN IF twice < step \/ (twice = step /\ k % 2 = 0)
       THEN k * (step \div d)
       ELSE (k + 1) * (step \div d)

\* an exact integer count of units rounded to a floating-point value
roundUnits(v) == IF v < 0 THEN 0 - roundRatio(0 - v, 1) ELSE roundRatio(v, 1)

\* a / n for a finite a >= 0 and an integer-valued n >= 0 (a page dimension)
fdiv(a, n) ==
    IF n = 0 THEN (IF a.v = 0 THEN NaNValue ELSE Infinity)
    ELSE Num(roundRatio(a.v, n))

\* n * s for an integer-valued n >= 0 and a number s >= 0
fmul(n, s) ==
    IF s.cls = "nan" THEN NaNValue
    ELSE IF s.cls = "inf" THEN (IF n = 0 THEN NaNValue ELSE Infinity)
    ELSE Num(roundRatio(n * s.v, 1))

\* a - b for a finite a and a number b >= 0
fsub(a, b) ==
    IF b.cls = "nan" THEN NaNValue
    ELSE IF b.cls = "inf" THEN [cls |-> "-inf", v |-> 0]
    ELSE Num(roundUnits(a.v - b.v))

\* a / 2, exact
fhalf(a) == IF a.cls = "num" THEN Num(a.v \div 2) ELSE a

\* Math.min of two numbers that are not negative
mathMin(a, b) ==
    IF a.cls = "nan" \/ b.cls = "nan" THEN NaNValue
    ELSE IF a.cls = "inf" THEN b
    ELSE IF b.cls = "inf" THEN a
    ELSE IF a.v <= b.v THEN a ELSE b

\* a length given in whole millimetres
mm(n) == Num(n * Unit)

\* PDFEmbeddedPage.scale(factor) of a page of intrinsic size w by h
embeddedPageScale(w, h, factor) == [width |-> fmul(w, factor), height |-> fmul(h, factor)]

\* Math.max of two numbers that are not negative
mathMax(a, b) ==
    IF a.cls = "nan" \/ b.cls = "nan" THEN NaNValue
    ELSE IF a.cls = "inf" \/ b.cls = "inf" THEN Infinity
    ELSE IF a.v >= b.v THEN a ELSE b

\* mutant: the larger ratio taken, a fill fit instead of a containment fit
fitScale_Max(w, h) == mathMax(fdiv(mm(a4Width), w), fdiv(mm(a4Height), h))

\* lines 157-160: const scale = Math.min(a4Width / width, a4Height / height)
fitScale(w, h) == mathMin(fdiv(mm(a4Width), w), fdiv(mm(a4Height), h))

\* lines 151-175: the A4 page added for one source page, with the rectangle
\* the embedded page is drawn into
drawOnA4(w, h) ==
    LET scale == fitScale(w, h)
        dims == embeddedPageScale(w, h, scale)
        x == fhalf(fsub(mm(a4Width), dims.width))
        y == fhalf(fsub(mm(a4Height), dims.height))
    IN [canvas |-> <<a4Width, a4Height>>, scale |-> scale,
        width |-> dims.width, height |-> dims.height, x |-> x, y |-> y]

\* the harness before a call: nothing returned, no page drawn
Idle == [op |-> "none", parsed |-> Null, message |-> NoMessage]
NoPage == [w |-> 0, h |-> 0]
NotPlaced == [canvas |-> <<0, 0>>, scale |-> NaNValue, width |-> NaNValue,
              height |-> NaNValue, x |-> NaNValue, y |-> NaNValue]

----------------------------------------------------------------------------
(* The documents a user can drop, as PDFDocument.load sees them *)

FileIds == {"two", "zero", "corrupt"}

\* PDFDocument.load(await file.arrayBuffer()): whether the bytes decode, and
\* the intrinsic size of each page, in page order
PdfOf(file) ==
    CASE file = "two" -> [ok |-> TRUE, pages |-> <<[w |-> 100, h |-> 200],
                                                   [w |-> 420, h |-> 297]>>]
      [] file = "zero" -> [ok |-> TRUE, pages |-> <<[w |-> 0, h |-> 297]>>]
      [] file = "corrupt" -> [ok |-> FALSE, pages |-> <<>>]

getPageCount(file) == Len(PdfOf(file).pages)

\* mutant: the page indices last page first
getPageIndices_Reversed(pages) == [n \in 1..Len(pages) |-> Len(pages) - n]

\* pdf.getPageIndices(): 0 .. pageCount - 1, ascending
getPageIndices(pages) == [n \in 1..Len(pages) |-> n - 1]

\* the sizes of the pages of the documents
PageSizes == UNION {{PdfOf(f).pages[n] : n \in 1..getPageCount(f)} : f \in FileIds}

\* lines 153-175 for each of them
drawnOnA4 == [size \in PageSizes |-> drawOnA4(size.w, size.h)]

\* the texts a user types into the selection input
typed(str) ==
    CASE str = "" -> <<>>
      [] str = "2,1" -> <<"2", ",", "1">>
      [] str = "1,,2" -> <<"1", ",", ",", "2">>

SplitTexts == {typed(""), typed("2,1"), typed("1,,2")}

\* line 214 for each of them
parsedSelection == [range \in SplitTexts |-> parsePageInput(range)]

----------------------------------------------------------------------------
(* The App component: state, effects and handlers *)

\* FileUpload.jsx line 6
maxFiles(tab) == IF tab = "split" THEN 1 ELSE 3

\* Array.prototype.slice(0, n)
slice(list, n) == IF Len(list) <= n THEN list ELSE SubSeq(list, 1, n)

\* Array.prototype.filter((_, i) => i !== index), index 0-based
removeAt(list, index) ==
    SubSeq(list, 1, index) \o SubSeq(list, index + 2, Len(list))

NoError == Message("")
NoLoads == [f \in FileIds |-> 0]

\* one more user event is handled; a behaviour holds at most MaxEvents
UserEvent == events < MaxEvents /\ events' = events + 1

RECURSIVE SumOver(_, _)
SumOver(f, S) ==
    IF S = {} THEN 0
    ELSE LET x == CHOOSE y \in S : TRUE IN f[x] + SumOver(f, S \ {x})

loadsInFlight == SumOver(loads, FileIds)

AppInit ==
    /\ activeTab = "merge"
    /\ files = <<>>
    /\ isProcessing = FALSE
    /\ splitRange = <<>>
    /\ splitError = NoError
    /\ totalPages = 0
    /\ ops = <<>>
    /\ loads = NoLoads
    /\ downloads = 0
    /\ alerts = 0
    /\ events = 0

\* lines 123-130, the effect on [splitRange, totalPages, activeTab]: the
\* error text it sets
validateEffect(tab, range, pages) ==
    IF tab = "split" /\ range # <<>> /\ pages > 0
    THEN LET error == validatePageInput(range, pages)
         IN IF error = NoMessage THEN NoError ELSE error
    ELSE NoError

\* The commit of a handler's state updates followed by the two effects.
\* newError is what the handler itself set the error text to. The effect on
\* [files, activeTab] runs when filesSet (a new array was set) or the tab
\* changed: in split mode with a file it starts loadPdfInfo for files[0],
\* otherwise it sets totalPages to 0. The validation effect runs when one of
\* its dependencies changed, and again after setTotalPages(0).
Commit(tab, newFiles, filesSet, range, newError) ==
    LET runLoad == filesSet \/ tab # activeTab
        starts == runLoad /\ tab = "split" /\ Len(newFiles) > 0
        pages == IF runLoad /\ ~starts THEN 0 ELSE totalPages
        runValidate == tab # activeTab \/ range # splitRange \/ pages # totalPages
    IN /\ starts => loadsInFlight < MaxLoads
       /\ activeTab' = tab
       /\ files' = newFiles
       /\ splitRange' = range
       /\ totalPages' = pages
       /\ loads' = IF starts
                   THEN [loads EXCEPT ![newFiles[1]] = @ + 1]
                   ELSE loads
       /\ splitError' = IF runValidate THEN validateEffect(tab, range, pages)
                        ELSE newError

\* lines 132-137
handleTabChange(tab) ==
    /\ Commit(tab, <<>>, TRUE, <<>>, NoError)
    /\ UserEvent
    /\ UNCHANGED <<isProcessing, ops, downloads, alerts, harnessVars>>

\* FileUpload.jsx lines 8-13; the dropzone is disabled once the list is full
\* and accepts at most maxFiles files in one drop
onDrop(acceptedFiles) ==
    /\ Len(files) < maxFiles(activeTab)
    /\ Len(acceptedFiles) <= maxFiles(activeTab)
    /\ Commit(activeTab, slice(files \o acceptedFiles, maxFiles(activeTab)), TRUE,
              splitRange, splitError)
    /\ UserEvent
    /\ UNCHANGED <<isProcessing, ops, downloads, alerts, harnessVars>>

\* FileUpload.jsx lines 15-17
removeFile(index) ==
    /\ index < Len(files)
    /\ Commit(activeTab, removeAt(files, index), TRUE, splitRange, splitError)
    /\ UserEvent
    /\ UNCHANGED <<isProcessing, ops, downloads, alerts, harnessVars>>

\* FileUpload.jsx lines 95-108: the input is rendered in split mode, in the
\* row of a file
setSplitRange(value) ==
    /\ activeTab = "split" /\ Len(files) > 0
    /\ value # splitRange
    /\ Commit(activeTab, files, FALSE, value, splitError)
    /\ UserEvent
    /\ UNCHANGED <<isProcessing, ops, downloads, alerts, harnessVars>>

\* lines 103-120: a suspended loadPdfInfo resumes and sets totalPages
loadPdfInfo(file) ==
    /\ loads[file] > 0
    /\ loads' = [loads EXCEPT ![file] = @ - 1]
    /\ totalPages' = IF PdfOf(file).ok THEN getPageCount(file) ELSE 0
    /\ splitError' = IF totalPages' # totalPages
                     THEN validateEffect(activeTab, splitRange, totalPages')
                     ELSE splitError
    /\ UNCHANGED <<activeTab, files, splitRange, isProcessing, ops, downloads,
                   alerts, events, harnessVars>>

\* mutant: a button that stays enabled while isProcessing
triggerEnabled_IgnoresFlag == Len(files) > 0

\* lines 283-288: the button is rendered while there is a file and is
\* disabled while isProcessing
triggerEnabled == Len(files) > 0 /\ ~isProcessing

\* A suspended handler call: the files, text and totalPages of the render
\* it was started from, where it stands, and the document built so far.
\* i is the position in the files list, j the 0-based page index (merge) or
\* the position in the selection (split).
Operation(kind, captured, range) ==
    [kind |-> kind, files |-> captured, range |-> range, pc |-> "load",
     i |-> 1, j |-> 0, selectedPages |-> <<>>, out |-> <<>>]

\* lines 139-147: the click on 'Merge PDF Files' up to the first await
handleMerge ==
    /\ activeTab = "merge"
    /\ triggerEnabled
    /\ isProcessing' = TRUE
    /\ ops' = Append(ops, Operation("merge", files, <<>>))
    /\ UserEvent
    /\ UNCHANGED <<activeTab, files, splitRange, splitError, totalPages, loads,
                   downloads, alerts, harnessVars>>

\* mutant: a rejected click that also clears the typed text
handleSplit_RejectClearsText ==
    /\ activeTab = "split"
    /\ triggerEnabled
    /\ LET validationError == validatePageInput(splitRange, totalPages)
       IN IF validationError # NoMessage
          THEN /\ splitError' = validationError
               /\ splitRange' = <<>>
               /\ UNCHANGED <<isProcessing, ops>>
          ELSE /\ isProcessing' = TRUE
               /\ ops' = Append(ops, Operation("split", files, splitRange))
               /\ UNCHANGED <<splitError, splitRange>>
    /\ UserEvent
    /\ UNCHANGED <<activeTab, files, totalPages, loads, downloads,
                   alerts, harnessVars>>

\* lines 197-211: the click on 'Split PDF Files' up to the first await; a
\* validation error is shown and the handler returns
handleSplit ==
    /\ activeTab = "split"
    /\ triggerEnabled
    /\ LET validationError == validatePageInput(splitRange, totalPages)
       IN IF validationError # NoMessage
          THEN /\ splitError' = validationError
               /\ UNCHANGED <<isProcessing, ops>>
          ELSE /\ isProcessing' = TRUE
               /\ ops' = Append(ops, Operation("split", files, splitRange))
               /\ UNCHANGED splitError
    /\ UserEvent
    /\ UNCHANGED <<activeTab, files, splitRange, totalPages, loads, downloads,
                   alerts, harnessVars>>

\* mutant: a failure path that also resets the files list
catchFinally_ClearsFiles(k) ==
    /\ alerts' = alerts + 1
    /\ isProcessing' = FALSE
    /\ ops' = removeAt(ops, k - 1)
    /\ files' = <<>>
    /\ UNCHANGED <<activeTab, splitRange, splitError, totalPages, loads,
                   downloads, events, harnessVars>>

\* lines 189-194 and 243-248: catch (alert) and finally
catchFinally(k) ==
    /\ alerts' = alerts + 1
    /\ isProcessing' = FALSE
    /\ ops' = removeAt(ops, k - 1)
    /\ UNCHANGED <<activeTab, files, splitRange, splitError, totalPages, loads,
                   downloads, events, harnessVars>>

\* Any awaited call (arrayBuffer, load, embedPages, copyPages, save) may
\* reject for a reason outside the program
awaitRejects(k) ==
    /\ k \in 1..Len(ops)
    /\ catchFinally(k)

\* lines 145-147: the next file is read and decoded
mergeLoadFile(k) ==
    /\ k \in 1..Len(ops)
    /\ ops[k].kind = "merge" /\ ops[k].pc = "load"
    /\ LET op == ops[k]
           pdf == PdfOf(op.files[op.i])
       IN IF ~pdf.ok THEN catchFinally(k)
          ELSE /\ ops' = [ops EXCEPT ![k].pc = "page", ![k].j = 0]
               /\ UNCHANGED <<appVarsButOps, harnessVars>>

\* lines 149-176: one page is embedded, scaled and drawn on a new A4 page
mergeDrawPage(k) ==
    /\ k \in 1..Len(ops)
    /\ ops[k].kind = "merge" /\ ops[k].pc = "page"
    /\ LET op == ops[k]
           file == op.files[op.i]
           pages == PdfOf(file).pages
           index == getPageIndices(pages)[op.j + 1]
           size == pages[index + 1]
           outPage == [file |-> file, fileAt |-> op.i, index |-> index, size |-> size,
                       draw |-> drawnOnA4[size]]
           more == op.j + 1 < Len(pages)
           lastFile == op.i = Len(op.files)
       IN ops' = [ops EXCEPT
                    ![k].out = Append(@, outPage),
                    ![k].j = IF more THEN @ + 1 ELSE 0,
                    ![k].i = IF more \/ lastFile THEN @ ELSE @ + 1,
                    ![k].pc = IF more THEN "page" ELSE IF lastFile THEN "save" ELSE "load"]
    /\ UNCHANGED <<appVarsButOps, harnessVars>>

\* lines 209-217: the file is read and decoded and the selection parsed
splitLoadFile(k) ==
    /\ k \in 1..Len(ops)
    /\ ops[k].kind = "split" /\ ops[k].pc = "load"
    /\ LET op == ops[k]
           pdf == PdfOf(op.files[1])
           selectedPages == parsedSelection[op.range]
       IN IF ~pdf.ok \/ selectedPages.null THEN catchFinally(k)
          ELSE /\ ops' = [ops EXCEPT
                            ![k].selectedPages = selectedPages.pages,
                            ![k].j = 1,
                            ![k].pc = IF selectedPages.pages = <<>> THEN "save" ELSE "copy"]
               /\ UNCHANGED <<appVarsButOps, harnessVars>>

\* lines 219-224: one selected page is copied; copyPages throws for an index
\* the document does not have
splitCopyPage(k) ==
    /\ k \in 1..Len(ops)
    /\ ops[k].kind = "split" /\ ops[k].pc = "copy"
    /\ LET op == ops[k]
           file == op.files[1]
           pages == PdfOf(file).pages
           pageNum == op.selectedPages[op.j]
           pageIndex == pageNum - 1
           more == op.j < Len(op.selectedPages)
       IN IF pageIndex < 0 \/ pageIndex >= Len(pages) THEN catchFinally(k)
          ELSE /\ ops' = [ops EXCEPT
                            ![k].out = Append(@, [file |-> file, fileAt |-> 1,
                                                  index |-> pageIndex,
                                                  size |-> pages[pageIndex + 1],
                                                  draw |-> NotPlaced]),
                            ![k].j = IF more THEN @ + 1 ELSE @,
                            ![k].pc = IF more THEN "copy" ELSE "save"]
               /\ UNCHANGED <<appVarsButOps, harnessVars>>

\* lines 179-188, 193 and 227-242, 247: the document is serialized and
\* downloaded, the inputs are reset, isProcessing is cleared
saveAndDownload(k) ==
    /\ k \in 1..Len(ops)
    /\ ops[k].pc = "save"
    /\ downloads' = downloads + 1
    /\ IF ops[k].kind = "merge"
       THEN Commit(activeTab, <<>>, TRUE, splitRange, splitError)
       ELSE Commit(activeTab, <<>>, TRUE, <<>>, NoError)
    /\ isProcessing' = FALSE
    /\ ops' = removeAt(ops, k - 1)
    /\ UNCHANGED <<alerts, events, harnessVars>>

OpStep ==
    \E k \in 1..MaxEvents :
        \/ mergeLoadFile(k)
        \/ mergeDrawPage(k)
        \/ splitLoadFile(k)
        \/ splitCopyPage(k)
        \/ saveAndDownload(k)
        \/ awaitRejects(k)

AcceptedDrops == UNION {[1..n -> FileIds] : n \in 1..MaxDrop}

Init ==
    /\ AppInit
    /\ input = <<>>
    /\ total = 0
    /\ ret = Idle
    /\ srcPage = NoPage
    /\ placed = NotPlaced

Next ==
    \/ \E tab \in {"merge", "split"} : handleTabChange(tab)
    \/ \E acceptedFiles \in AcceptedDrops : onDrop(acceptedFiles)
    \/ \E index \in 0..2 : removeFile(index)
    \/ \E value \in SplitTexts : setSplitRange(value)
    \/ \E file \in FileIds : loadPdfInfo(file)
    \/ handleMerge
    \/ handleSplit
    \/ OpStep

Spec == Init /\ [][Next]_vars

\* every awaited call settles: a suspended handler is eventually resumed
FairSpec == Spec /\ WF_vars(OpStep)

----------------------------------------------------------------------------
(* The parser and the validator applied to every text of the bounds *)

ParseInit ==
    /\ input \in TextsUpTo(MaxLen)
    /\ total = 0
    /\ ret = Idle
    /\ srcPage = NoPage
    /\ placed = NotPlaced
    /\ AppInit

CallParse ==
    /\ ret.op = "none"
    /\ ret' = [op |-> "parse", parsed |-> parsePageInput(input), message |-> NoMessage]
    /\ UNCHANGED <<input, total, srcPage, placed, appVars>>

CallValidate ==
    /\ ret.op = "none"
    /\ \E nPages \in 0..MaxTotal :
          /\ total' = nPages
          /\ ret' = [op |-> "validate", parsed |-> Null,
                     message |-> validatePageInput(input, nPages)]
    /\ UNCHANGED <<input, srcPage, placed, appVars>>

ParseNext == CallParse \/ CallValidate

ParseSpec == ParseInit /\ [][ParseNext]_vars

----------------------------------------------------------------------------
(* The merge placement applied to every page size of the bounds *)

PageDims == {d * DimStep : d \in 0..MaxDim}

GeomInit ==
    /\ input = <<>>
    /\ total = 0
    /\ ret = Idle
    /\ srcPage \in [w : PageDims, h : PageDims]
    /\ placed = NotPlaced
    /\ AppInit

DrawPage ==
    /\ placed = NotPlaced
    /\ placed' = drawOnA4(srcPage.w, srcPage.h)
    /\ UNCHANGED <<input, total, ret, srcPage, appVars>>

GeomNext == DrawPage

GeomSpec == GeomInit /\ [][GeomNext]_vars

----------------------------------------------------------------------------
(* The grammar and the gates, stated apart from the code *)

\* s is an integer literal: one or more decimal digits
IsNumeral(s) == s # <<>> /\ \A i \in 1..Len(s) : IsDigit(s[i])

RECURSIVE Pow10(_)
Pow10(k) == IF k = 0 THEN 1 ELSE 10 * Pow10(k - 1)

RECURSIVE Sum(_, _)
Sum(f, n) == IF n = 0 THEN 0 ELSE f[n] + Sum(f, n - 1)

\* the number a run of digits denotes, by place value
NumeralValue(s) ==
    Sum([i \in 1..Len(s) |-> DigitVal(s[i]) * Pow10(Len(s) - i)], Len(s))

\* the numeral a token piece starts with, blanks before it ignored
LeadingNumeral(s) ==
    LET t == trimStart(s)
        k == CHOOSE n \in 0..Len(t) :
                 /\ \A i \in 1..n : IsDigit(t[i])
                 /\ n < Len(t) => ~IsDigit(t[n + 1])
    IN SubSeq(t, 1, k)

\* the tokens of a text: its comma-separated pieces, trimmed, the empty
\* ones left out
Tokens(txt) ==
    LET pieces == split(txt, ",")
    IN {trim(pieces[i]) : i \in 1..Len(pieces)} \ {<<>>}

\* the pages a token stands for: a standalone number n stands for n, a
\* range A-B for every integer of A..B
TokenExpansion(token) ==
    IF includes(token, "-")
    THEN LET pieces == split(token, "-")
         IN NumeralValue(LeadingNumeral(pieces[1])) ..
            NumeralValue(LeadingNumeral(pieces[2]))
    ELSE {NumeralValue(LeadingNumeral(token))}

Elements(list) == {list[i] : i \in 1..Len(list)}

StrictlyAscending(list) == \A i \in 1..(Len(list) - 1) : list[i] < list[i + 1]

\* the elements of a finite set of integers, smallest first
RECURSIVE AscendingSeq(_)
AscendingSeq(S) ==
    IF S = {} THEN <<>>
    ELSE LET m == CHOOSE x \in S : \A y \in S : x <= y
         IN <<m>> \o AscendingSeq(S \ {m})

\* a token of the grammar: one integer literal, or exactly one hyphen with
\* an integer literal on each side (blanks around them ignored) and A <= B
IsRangeToken(token) ==
    LET pieces == split(token, "-")
    IN /\ Len(pieces) = 2
       /\ IsNumeral(trim(pieces[1]))
       /\ IsNumeral(trim(pieces[2]))
       /\ NumeralValue(trim(pieces[1])) <= NumeralValue(trim(pieces[2]))

IsGrammarToken(token) == IsNumeral(token) \/ IsRangeToken(token)

\* the text is a comma-separated list of grammar tokens
FitsGrammar(txt) ==
    LET pieces == split(txt, ",")
    IN \A i \in 1..Len(pieces) : IsGrammarToken(trim(pieces[i]))

Blank(txt) == \A i \in 1..Len(txt) : txt[i] = " "

HasForeignChar(txt) ==
    \E i \in 1..Len(txt) : txt[i] \notin {"0", "1", "2", "3", "4", "5", "6", "7",
                                            "8", "9", ",", "-", " "}

FirstNonBlank(txt) == txt[CHOOSE i \in 1..Len(txt) :
                               txt[i] # " " /\ \A j \in 1..(i - 1) : txt[j] = " "]

LastNonBlank(txt) == txt[CHOOSE i \in 1..Len(txt) :
                              txt[i] # " " /\ \A j \in (i + 1)..Len(txt) : txt[j] = " "]

HasExtraPunctuation(txt) ==
    \/ \E i \in 1..(Len(txt) - 1) : txt[i] = txt[i + 1] /\ txt[i] \in {",", "-"}
    \/ ~Blank(txt) /\ FirstNonBlank(txt) \in {",", "-"}
    \/ ~Blank(txt) /\ LastNonBlank(txt) \in {",", "-"}

PassesFormatGates(txt) ==
    ~Blank(txt) /\ ~HasForeignChar(txt) /\ ~HasExtraPunctuation(txt)

----------------------------------------------------------------------------
(* Claims on the parser and the validator, checked under ParseSpec *)

\* C1: whenever parsePageInput does not return null, its result is strictly
\* ascending (so without duplicates) and holds exactly the union of the
\* expansions of the text's tokens, whatever their order, repetition or
\* overlap.
C1_ParseIsSortedUnion ==
    (ret.op = "parse" /\ ~ret.parsed.null) =>
        /\ StrictlyAscending(ret.parsed.pages)
        /\ Elements(ret.parsed.pages) =
               UNION {TokenExpansion(token) : token \in Tokens(input)}

\* C1 witness: "1,0,1" (out of order, with a repeated token) parsed to [0, 1]
C1_Witness ==
    /\ ret.op = "parse"
    /\ input = <<"1", ",", "0", ",", "1">>
    /\ ret.parsed = Pages(<<0, 1>>)

\* C2: validatePageInput returns null only for texts of the grammar, and
\* parsePageInput returns null when a token is neither an integer literal
\* nor a range A-B of integer literals with A <= B.
C2_OnlyGrammarAccepted ==
    /\ (ret.op = "validate" /\ ret.message = NoMessage) => FitsGrammar(input)
    /\ (ret.op = "parse" /\ \E token \in Tokens(input) : ~IsGrammarToken(token))
           => ret.parsed.null

\* C3: the first failing gate decides the message: blank text, then a
\* character outside the class, then extra commas or hyphens; a text that
\* passes the three gates gets none of their messages.
C3_GateOrder ==
    ret.op = "validate" =>
        /\ Blank(input) => ret.message = MsgEmptyInput
        /\ (~Blank(input) /\ HasForeignChar(input)) => ret.message = MsgInvalidChars
        /\ (~Blank(input) /\ ~HasForeignChar(input) /\ HasExtraPunctuation(input))
               => ret.message = MsgMalformed
        /\ PassesFormatGates(input)
               => ret.message \notin {MsgEmptyInput, MsgInvalidChars, MsgMalformed}

\* C3 witness: a text that fails the character gate and the punctuation gate
\* at once was answered with the character-gate message
C3_Witness ==
    /\ ret.op = "validate"
    /\ ~Blank(input) /\ HasForeignChar(input) /\ HasExtraPunctuation(input)
    /\ ret.message = MsgInvalidChars

\* C4: for a text that passes the format gates and parses to a non-empty
\* list, the answer is null exactly when every parsed number is within
\* 1..totalPages; otherwise it lists exactly the numbers outside that range,
\* each once, ascending and comma-joined, in the singular wording exactly
\* when there is one offender and in the plural wording otherwise.
C4_RangeGate ==
    (ret.op = "validate" /\ PassesFormatGates(input)
       /\ ~parsePageInput(input).null /\ parsePageInput(input).pages # <<>>) =>
        LET parsed == Elements(parsePageInput(input).pages)
            offenders == {n \in parsed : ~(1 <= n /\ n <= total)}
        IN /\ ret.message = NoMessage <=> offenders = {}
           /\ offenders # {} =>
                 /\ ret.message.list = join(AscendingSeq(offenders))
                 /\ ret.message.text = SingularWording <=> Cardinality(offenders) = 1
                 /\ ret.message.text = PluralWording <=> Cardinality(offenders) > 1

\* C4 witness: a plural answer for a selection with a page below 1, a page
\* in range and a page above totalPages
C4_Witness ==
    /\ ret.op = "validate"
    /\ PassesFormatGates(input)
    /\ ret.message.text = PluralWording
    /\ LET parsed == Elements(parsePageInput(input).pages)
       IN /\ \E n \in parsed : n < 1
          /\ \E n \in parsed : 1 <= n /\ n <= total
          /\ \E n \in parsed : n > total

----------------------------------------------------------------------------
(* Claims on the merge placement, checked under GeomSpec *)

Abs(n) == IF n < 0 THEN 0 - n ELSE n

CanvasW == a4Width * Unit
CanvasH == a4Height * Unit

Drawn == placed # NotPlaced /\ srcPage.w > 0 /\ srcPage.h > 0

\* C5 as stated: for a page of positive size the placed rectangle lies
\* inside the canvas, is centred on both axes, keeps the ratio w:h and
\* touches the canvas edge on one axis; the page has the canvas size.
C5_ExactPlacement ==
    Drawn =>
        /\ placed.canvas = <<a4Width, a4Height>>
        /\ placed.x.v >= 0 /\ placed.y.v >= 0
        /\ placed.x.v + placed.width.v <= CanvasW
        /\ placed.y.v + placed.height.v <= CanvasH
        /\ placed.x.v = CanvasW - placed.x.v - placed.width.v
        /\ placed.y.v = CanvasH - placed.y.v - placed.height.v
        /\ placed.width.v * srcPage.h = placed.height.v * srcPage.w
        /\ (placed.x.v = 0 \/ placed.y.v = 0)

\* C5 amended: the same up to the rounding of the floating-point
\* operations. With ulpW and ulpH one unit in the last place of W and H:
\* the placed width and height are finite and exceed W and H by at most
\* ulpW and ulpH, so that x >= -ulpW/2 and y >= -ulpH/2 and the far edges
\* pass W and H by at most ulpW/2 and ulpH/2; the two margins of an axis
\* differ by at most ulpW/2 (ulpH/2); width and height are the products
\* w*scale and h*scale of one common scale, each rounded once; and on one
\* axis the rectangle is within ulp/2 of the canvas edge. Every page drawn
\* has the canvas size.
C5_PlacementUpToRounding ==
    Drawn =>
        LET ulpW == UlpAt(CanvasW)
            ulpH == UlpAt(CanvasH)
        IN /\ placed.canvas = <<a4Width, a4Height>>
           /\ placed.scale.cls = "num" /\ placed.scale.v > 0
           /\ placed.width.cls = "num" /\ placed.height.cls = "num"
           /\ placed.x.cls = "num" /\ placed.y.cls = "num"
           /\ placed.width.v <= CanvasW + ulpW
           /\ placed.height.v <= CanvasH + ulpH
           /\ 2 * placed.x.v >= 0 - ulpW
           /\ 2 * placed.y.v >= 0 - ulpH
           /\ 2 * (placed.x.v + placed.width.v) <= 2 * CanvasW + ulpW
           /\ 2 * (placed.y.v + placed.height.v) <= 2 * CanvasH + ulpH
           /\ 2 * Abs(CanvasW - placed.width.v - 2 * placed.x.v) <= ulpW
           /\ 2 * Abs(CanvasH - placed.height.v - 2 * placed.y.v) <= ulpH
           /\ 2 * Abs(placed.width.v - srcPage.w * placed.scale.v)
                  <= UlpAt(srcPage.w * placed.scale.v)
           /\ 2 * Abs(placed.height.v - srcPage.h * placed.scale.v)
                  <= UlpAt(srcPage.h * placed.scale.v)
           /\ (2 * Abs(placed.x.v) <= ulpW \/ 2 * Abs(placed.y.v) <= ulpH)

\* C5 witness: a page larger than the canvas on both axes was scaled down
\* and drawn with a positive horizontal margin
C5_Witness ==
    /\ Drawn
    /\ srcPage.w > a4Width /\ srcPage.h > a4Height
    /\ placed.scale.v < Unit
    /\ placed.x.v > 0

----------------------------------------------------------------------------
(* Claims on the merge and split handlers, checked under Spec and FairSpec *)

\* the source of each page of a document under construction: the position
\* of its file in the list the handler works on and its 0-based page index
SourcesOf(out) ==
    [n \in 1..Len(out) |-> [fileAt |-> out[n].fileAt, index |-> out[n].index]]

\* every page of every file: files in list order, pages in page order
RECURSIVE MergeOrder(_)
MergeOrder(list) ==
    IF list = <<>> THEN <<>>
    ELSE LET at == Len(list)
         IN MergeOrder(SubSeq(list, 1, at - 1)) \o
            [j \in 1..getPageCount(list[at]) |-> [fileAt |-> at, index |-> j - 1]]

RECURSIVE PageTotal(_)
PageTotal(list) ==
    IF list = <<>> THEN 0 ELSE getPageCount(Head(list)) + PageTotal(Tail(list))

MergeAtSave(k) == ops[k].kind = "merge" /\ ops[k].pc = "save"
SplitAtSave(k) == ops[k].kind = "split" /\ ops[k].pc = "save"

\* C6: the document a merge hands to save() holds one page per source page
\* of the files list it was started on: as many pages as the page counts of
\* the files add up to, in files-list order and, within a file, in page
\* order, each page taken from the file at that position.
C6_MergeKeepsEveryPageInOrder ==
    \A k \in 1..Len(ops) :
        MergeAtSave(k) =>
            LET op == ops[k]
            IN /\ Len(op.out) = PageTotal(op.files)
               /\ SourcesOf(op.out) = MergeOrder(op.files)
               /\ \A n \in 1..Len(op.out) :
                      /\ op.out[n].file = op.files[op.out[n].fileAt]
                      /\ op.out[n].size = PdfOf(op.out[n].file).pages[op.out[n].index + 1]

\* C6 witness: a merge of two files, the second of two pages, is about to
\* save a document of three pages or more
C6_Witness ==
    \E k \in 1..Len(ops) :
        /\ MergeAtSave(k)
        /\ Len(ops[k].files) >= 2
        /\ ops[k].files[2] = "two"
        /\ Len(ops[k].out) >= 3

\* C7: the document a split hands to save() holds exactly the pages whose
\* 1-based numbers are in parsePageInput(text), smallest number first
\* whatever the order typed, page n copied from 0-based index n - 1 of the
\* file, with its own size and no placement; it has as many pages as the
\* selection has numbers.
C7_SplitCopiesSelectionAscending ==
    \A k \in 1..Len(ops) :
        SplitAtSave(k) =>
            LET op == ops[k]
                selection == AscendingSeq(Elements(parsePageInput(op.range).pages))
            IN /\ Len(op.out) = Len(selection)
               /\ \A n \in 1..Len(op.out) :
                      /\ op.out[n].file = op.files[1]
                      /\ op.out[n].index = selection[n] - 1
                      /\ op.out[n].size = PdfOf(op.files[1]).pages[selection[n]]
                      /\ op.out[n].draw = NotPlaced

\* C7 witness: the text "2,1" on a two-page file gave the pages of index 0
\* and 1, in that order
C7_Witness ==
    \E k \in 1..Len(ops) :
        /\ SplitAtSave(k)
        /\ ops[k].range = typed("2,1")
        /\ SourcesOf(ops[k].out) = <<[fileAt |-> 1, index |-> 0],
                                      [fileAt |-> 1, index |-> 1]>>

\* C8: a merge never puts a source page of zero width or zero height into
\* its output document, and a merge of a file with such a page never gets
\* as far as save().
C8_ZeroSizePageAborts ==
    \A k \in 1..Len(ops) :
        ops[k].kind = "merge" =>
            /\ \A n \in 1..Len(ops[k].out) :
                   ops[k].out[n].size.w > 0 /\ ops[k].out[n].size.h > 0
            /\ ops[k].pc = "save" =>
                   \A i \in 1..Len(ops[k].files) :
                       \A n \in 1..getPageCount(ops[k].files[i]) :
                           LET size == PdfOf(ops[k].files[i]).pages[n]
                           IN size.w > 0 /\ size.h > 0

\* a handler call ended in this step
OpEnded == Len(ops') < Len(ops)

\* C9: a handler call that ends without a download raises exactly one
\* alert, leaves the files list and the selection text as they are and
\* clears isProcessing; an alert is raised only by such a call; a download
\* is started only by a call that reached save(), once, with no alert; and
\* no step of a handler call changes the files list or the selection text
\* unless it starts the download.
C9_AllOrNothing ==
    [][/\ (OpEnded /\ downloads' = downloads) =>
              /\ alerts' = alerts + 1
              /\ files' = files
              /\ splitRange' = splitRange
              /\ isProcessing' = FALSE
       /\ alerts' # alerts => (OpEnded /\ downloads' = downloads)
       /\ downloads' # downloads =>
              /\ downloads' = downloads + 1
              /\ alerts' = alerts
              /\ \E k \in 1..Len(ops) : ops[k].pc = "save" /\ ops' = removeAt(ops, k - 1)
       /\ (events' = events /\ (files' # files \/ splitRange' # splitRange)) =>
              downloads' = downloads + 1
      ]_vars

\* C9 witness: a merge of a two-page file and a corrupt file has failed:
\* one alert, no download, the files list as it was, isProcessing cleared
C9_Witness ==
    /\ alerts = 1 /\ downloads = 0
    /\ ops = <<>> /\ ~isProcessing
    /\ activeTab = "merge"
    /\ files = <<"two", "corrupt">>

\* C10: at most one handler call is in flight, isProcessing is true exactly
\* while one is, the button is not enabled while isProcessing, and
\* isProcessing always becomes false again.
C10_OneOperationAtATime ==
    /\ [](/\ Len(ops) <= 1
          /\ isProcessing <=> Len(ops) = 1
          /\ isProcessing => ~triggerEnabled)
    /\ (isProcessing ~> ~isProcessing)

\* C10 witness: while a call is in flight the user has replaced the files
\* list, so the button is shown again, and no second call has started
C10_Witness ==
    /\ isProcessing /\ Len(ops) = 1
    /\ Len(files) > 0
    /\ files # ops[1].files
    /\ events >= 3

----------------------------------------------------------------------------
(* Claims on the split trigger and the page-count loads *)

\* C11: a click on 'Split PDF Files' whose validation finds an error only
\* sets the error text to the message validatePageInput returned for the
\* typed text and totalPages: isProcessing stays false, no handler call is
\* suspended (no document is loaded), no page-count load starts, no download
\* and no alert happen, and the files list, the typed text, totalPages and
\* the tab are unchanged.
C11_RejectedSplitOnlySetsError ==
    [][(handleSplit /\ validatePageInput(splitRange, totalPages) # NoMessage) =>
          /\ splitError' = validatePageInput(splitRange, totalPages)
          /\ isProcessing = FALSE /\ isProcessing' = FALSE
          /\ ops' = ops
          /\ loads' = loads
          /\ downloads' = downloads
          /\ alerts' = alerts
          /\ files' = files
          /\ splitRange' = splitRange
          /\ totalPages' = totalPages
          /\ activeTab' = activeTab
      ]_vars

\* C11 witness: with the page-count load still in flight (totalPages 0, so
\* the validation effect shows no error) the text "1,,2" was rejected by a
\* click: the error text is the validator's message, the text and the file
\* are still there and nothing was started
C11_Witness ==
    /\ activeTab = "split"
    /\ files = <<"two">>
    /\ splitRange = typed("1,,2")
    /\ totalPages = 0
    /\ splitError = MsgMalformed
    /\ ~isProcessing /\ ops = <<>>
    /\ downloads = 0 /\ alerts = 0

\* the page count of the current split file, 0 when there is none
CurrentPageCount ==
    IF activeTab = "split" /\ files # <<>> THEN getPageCount(files[1]) ELSE 0

\* once no page-count load is in flight, totalPages is the page count of
\* the current split file
TotalPagesIsCurrent == loadsInFlight = 0 => totalPages = CurrentPageCount

\* every page number a split is about to copy is a page of the document it
\* loaded
CopiesInRange ==
    \A k \in 1..Len(ops) :
        (ops[k].kind = "split" /\ ops[k].pc = "copy") =>
            LET pageNum == ops[k].selectedPages[ops[k].j]
            IN 1 <= pageNum /\ pageNum <= getPageCount(ops[k].files[1])

\* a click that passes validation validated against the page count of the
\* file the handler then loads
ValidatedAgainstLoadedFile ==
    (handleSplit /\ validatePageInput(splitRange, totalPages) = NoMessage) =>
        totalPages = getPageCount(files[1])

\* C12: in every interleaving of file adds and removals, tab switches,
\* page-count loads and split clicks, the totalPages a split click validates
\* against is the page count of the file the handler then loads, every page
\* number a split copies lies within 1..pageCount of that document, and
\* once no page-count load is in flight totalPages is the page count of the
\* current split file (0 when there is none).
C12_SplitPreconditionHolds ==
    /\ [](TotalPagesIsCurrent /\ CopiesInRange)
    /\ [][ValidatedAgainstLoadedFile]_vars

====
